---- MODULE Spec2Model ----
(***************************************************************************)
(* A model of dyff's report filter (Report.filter, Filter, Exclude,        *)
(* FilterRegexp, ExcludeRegexp, IgnoreValueChanges) and of the neat output *)
(* processor (pkg/neat/neat.go).                                           *)
(*                                                                         *)
(* Strings that the code parses or matches are sequences of one-character  *)
(* tokens; a Go pointer is a sequence of length 0 (nil) or 1.              *)
(***************************************************************************)
EXTENDS Integers, Sequences, FiniteSets

VARIABLES
    report,     \* the Report a filter operation is called on (immutable)
    call,       \* the last filter operation called: [op, args]
    outcome,    \* what that call produced: [status, report]
    config,     \* the OutputProcessor's preferences (fixed at construction)
    data,       \* OutputProcessor.data: the bytes.Buffer behind the writer
    out,        \* OutputProcessor.out: what the bufio.Writer holds unflushed
    ncalls,     \* number of ToString calls made on the processor
    rendered,   \* the value passed to the last ToString call
    written,    \* the segments the last ToString call wrote to the writer
    ret         \* what the last ToString call returned: [str, err]

vars == <<report, call, outcome, config, data, out, ncalls, rendered, written, ret>>

filterVars == <<report, call, outcome>>
neatVars == <<config, data, out, ncalls, rendered, written, ret>>

\* ------------------------------------------------------------------ bounds

\* The longest report (number of diffs) the filter specification starts from.
MaxDiffs == 2

\* The number of ToString calls made on one OutputProcessor.
MaxCalls == 2

\* ------------------------------------------------------------ small helpers

Range(s) == {s[i] : i \in 1..Len(s)}

Nil == <<>>
Ptr(x) == <<x>>

RECURSIVE Flatten(_)
Flatten(ss) == IF ss = <<>> THEN <<>> ELSE Head(ss) \o Flatten(Tail(ss))

\* s is t with elements removed: same relative order, nothing added.
RECURSIVE IsSubsequence(_, _)
IsSubsequence(s, t) ==
    IF s = <<>> THEN TRUE
    ELSE IF t = <<>> THEN FALSE
    ELSE IF Head(s) = Head(t) THEN IsSubsequence(Tail(s), Tail(t))
    ELSE IsSubsequence(s, Tail(t))

RECURSIVE Reverse(_)
Reverse(s) == IF s = <<>> THEN <<>> ELSE Append(Reverse(Tail(s)), Head(s))

\* ------------------------------------------------------ the report's data

ADDITION == "ADDITION"
REMOVAL == "REMOVAL"
MODIFICATION == "MODIFICATION"
ORDER_CHANGE == "ORDER_CHANGE"

\* yaml.Node values: a scalar, a mapping (kids carry their keys) or a
\* sequence (kids carry their index).
ScalarNode == [kind |-> "scalar", kids |-> <<>>]
MappingNode(kids) == [kind |-> "mapping", kids |-> kids]
SequenceNode(kids) == [kind |-> "sequence", kids |-> kids]
Kid(k, n) == [key |-> k, node |-> n]

NodeB == MappingNode(<<Kid("b", ScalarNode)>>)
NodeBC == MappingNode(<<Kid("b", MappingNode(<<Kid("c", ScalarNode)>>))>>)
NodeList == SequenceNode(<<Kid("0", ScalarNode)>>)

Detail(k, f, t) == [Kind |-> k, From |-> f, To |-> t]

\* The Details a diff of the model carries.
DetailLists ==
    { <<Detail(MODIFICATION, Ptr(ScalarNode), Ptr(ScalarNode))>>,
      <<Detail(ADDITION, Nil, Ptr(NodeB))>>,
      <<Detail(REMOVAL, Ptr(NodeBC), Nil)>>,
      <<Detail(ORDER_CHANGE, Ptr(NodeList), Ptr(NodeList))>>,
      <<Detail(ADDITION, Nil, Ptr(ScalarNode)),
        Detail(MODIFICATION, Ptr(ScalarNode), Ptr(ScalarNode))>> }

\* Diff.Path is a *ytbx.Path: nil, or a path of elements.
PathPtrs == { Nil, Ptr(<<"a">>), Ptr(<<"x">>) }

Diffs == [Path : PathPtrs, Details : DetailLists]

RECURSIVE SeqsUpTo(_, _)
SeqsUpTo(S, n) ==
    IF n = 0 THEN {<<>>}
    ELSE LET shorter == SeqsUpTo(S, n - 1)
         IN shorter \cup {Append(s, x) : s \in {t \in shorter : Len(t) = n - 1}, x \in S}

Reports == [From : {"from.yml"}, To : {"to.yml"}, Diffs : SeqsUpTo(Diffs, MaxDiffs)]

\* The zero Report, and the outcomes of a call.
Ok(r) == [status |-> "ok", report |-> r]
Panic == [status |-> "panic", report |-> [From |-> "", To |-> "", Diffs |-> <<>>]]
NoCall == [op |-> "none", args |-> <<>>]
NoOutcome == [status |-> "none", report |-> [From |-> "", To |-> "", Diffs |-> <<>>]]

\* ------------------------------------------------- the path collaborators

\* ytbx.Path.String: the canonical (go-patch style) string of a path.
PathString(path) ==
    IF path = <<>> THEN <<"/">>
    ELSE Flatten([i \in 1..Len(path) |-> <<"/", path[i]>>])

\* Splitting a token string at a separator.
RECURSIVE SplitAt(_, _, _, _)
SplitAt(s, sep, cur, acc) ==
    IF s = <<>> THEN Append(acc, cur)
    ELSE IF Head(s) = sep THEN SplitAt(Tail(s), sep, <<>>, Append(acc, cur))
    ELSE SplitAt(Tail(s), sep, Append(cur, Head(s)), acc)

Split(s, sep) == SplitAt(s, sep, <<>>, <<>>)

\* ytbx.ParsePathStringUnsafe: a string starting with "/" is go-patch style,
\* any other is dot style; an empty section is malformed.
ParsePathStringUnsafe(pathString) ==
    LET goPatch == pathString # <<>> /\ Head(pathString) = "/"
        sections == IF goPatch THEN Split(Tail(pathString), "/")
                    ELSE Split(pathString, ".")
    IN IF pathString = <<"/">> THEN [err |-> FALSE, path |-> <<>>]
       ELSE IF \E i \in 1..Len(sections) : Len(sections[i]) # 1
            THEN [err |-> TRUE, path |-> <<>>]
       ELSE [err |-> FALSE, path |-> [i \in 1..Len(sections) |-> sections[i][1]]]

\* ytbx.ListPathsInNode: every structural sub-path inside a node, mapping
\* keys and sequence indices, recursively.
RECURSIVE ListPathsInNode(_)
ListPathsInNode(node) ==
    Flatten([i \in 1..Len(node.kids) |->
        <<<<node.kids[i].key>>>> \o
        [j \in 1..Len(ListPathsInNode(node.kids[i].node)) |->
            <<node.kids[i].key>> \o ListPathsInNode(node.kids[i].node)[j]]])

\* ytbx.AppendPath
AppendPath(path, subPath) == path \o subPath

\* The path strings and the patterns the operations are called with.
PathStrings == { <<"/", "a">>, <<"a", ".", "b">>, <<"/", "/">> }

\* A regular expression of the model: a literal, anchored or not at either
\* end; an invalid expression does not compile.
Regexp(valid, atStart, lit, atEnd) ==
    [valid |-> valid, atStart |-> atStart, lit |-> lit, atEnd |-> atEnd]

Patterns == { Regexp(TRUE, TRUE, <<"/", "a">>, FALSE),
              Regexp(TRUE, FALSE, <<"b">>, TRUE),
              Regexp(FALSE, FALSE, <<>>, FALSE) }

\* regexp.Regexp.MatchString
MatchString(re, s) ==
    \E i \in 1..(Len(s) - Len(re.lit) + 1) :
        /\ SubSeq(s, i, i + Len(re.lit) - 1) = re.lit
        /\ re.atStart => i = 1
        /\ re.atEnd => i + Len(re.lit) - 1 = Len(s)

ArgLists(S) == {<<>>} \cup {<<x>> : x \in S} \cup {<<x, y>> : x \in S, y \in S}

\* ------------------------------------------------------------ the filter

\* The four predicates handed to Report.filter, as data: the operation that
\* built the closure and the arguments it closed over.
Pred(op, args) == [op |-> op, args |-> args]

hasPath(pred, filterPath) ==
    LET hit(i) ==
            IF pred.op \in {"Filter", "Exclude"}
            THEN LET parsed == ParsePathStringUnsafe(pred.args[i])
                 IN /\ ~parsed.err
                    /\ filterPath # Nil
                    /\ PathString(parsed.path) = PathString(filterPath[1])
            ELSE /\ filterPath # Nil
                 /\ MatchString(pred.args[i], PathString(filterPath[1]))
        any == \E i \in 1..Len(pred.args) : hit(i)
    IN IF pred.op \in {"Filter", "FilterRegexp"} THEN any ELSE ~any

\* The sub-paths the inner loops of Report.filter enumerate for one diff: of
\* every Detail, of its From and its To, when present.
SubPaths(diff) ==
    Flatten([i \in 1..Len(diff.Details) |->
        (IF diff.Details[i].From # Nil
         THEN ListPathsInNode(diff.Details[i].From[1]) ELSE <<>>) \o
        (IF diff.Details[i].To # Nil
         THEN ListPathsInNode(diff.Details[i].To[1]) ELSE <<>>)])

\* The loop of Report.filter over r.Diffs. includeDiff is declared before
\* the loop and is only ever set to false. *diff.Path dereferences a nil
\* pointer, and panics, as soon as a diff without a path has a sub-path.
RECURSIVE filterLoop(_, _, _, _)
filterLoop(pred, diffs, includeDiff, acc) ==
    IF diffs = <<>> THEN [status |-> "ok", Diffs |-> acc]
    ELSE LET diff == Head(diffs)
             subPaths == SubPaths(diff)
         IN IF diff.Path = Nil /\ subPaths # <<>>
            THEN [status |-> "panic", Diffs |-> <<>>]
            ELSE LET include ==
                         /\ includeDiff
                         /\ hasPath(pred, diff.Path)
                         /\ \A i \in 1..Len(subPaths) :
                                hasPath(pred, Ptr(AppendPath(diff.Path[1], subPaths[i])))
                 IN filterLoop(pred, Tail(diffs), include,
                               IF include THEN Append(acc, diff) ELSE acc)

\* A filter that hands the kept diffs back in reverse order.
filterReversed(r, pred) ==
    LET run == filterLoop(pred, r.Diffs, TRUE, <<>>)
    IN IF run.status = "panic" THEN Panic
       ELSE Ok([From |-> r.From, To |-> r.To, Diffs |-> Reverse(run.Diffs)])

filter(r, pred) ==
    LET run == filterLoop(pred, r.Diffs, TRUE, <<>>)
    IN IF run.status = "panic" THEN Panic
       ELSE Ok([From |-> r.From, To |-> r.To, Diffs |-> run.Diffs])

\* A Filter without the early return for an empty argument list.
FilterAlways(r, paths) == filter(r, Pred("Filter", paths))

Filter(r, paths) ==
    IF Len(paths) = 0 THEN Ok(r) ELSE filter(r, Pred("Filter", paths))

Exclude(r, paths) ==
    IF Len(paths) = 0 THEN Ok(r) ELSE filter(r, Pred("Exclude", paths))

\* regexp.MustCompile panics on an expression that does not compile.
FilterRegexp(r, pattern) ==
    IF Len(pattern) = 0 THEN Ok(r)
    ELSE IF \E i \in 1..Len(pattern) : ~pattern[i].valid THEN Panic
    ELSE filter(r, Pred("FilterRegexp", pattern))

ExcludeRegexp(r, pattern) ==
    IF Len(pattern) = 0 THEN Ok(r)
    ELSE IF \E i \in 1..Len(pattern) : ~pattern[i].valid THEN Panic
    ELSE filter(r, Pred("ExcludeRegexp", pattern))

\* A check that looks at the first Detail only.
hasValChangeFirstOnly(details) ==
    details # <<>> /\ Head(details).Kind = MODIFICATION

\* The loop of IgnoreValueChanges over one diff's Details, with its break.
RECURSIVE hasValChange(_)
hasValChange(details) ==
    IF details = <<>> THEN FALSE
    ELSE IF Head(details).Kind = MODIFICATION THEN TRUE
    ELSE hasValChange(Tail(details))

RECURSIVE ignoreLoop(_, _)
ignoreLoop(diffs, acc) ==
    IF diffs = <<>> THEN acc
    ELSE ignoreLoop(Tail(diffs),
                    IF ~hasValChange(Head(diffs).Details)
                    THEN Append(acc, Head(diffs)) ELSE acc)

IgnoreValueChanges(r) ==
    Ok([From |-> r.From, To |-> r.To, Diffs |-> ignoreLoop(r.Diffs, <<>>)])

\* ------------------------------------------------------ the neat renderer

\* A segment of output: the text of one WriteString call, with the colour
\* and emphasis applied to it; role names the statement that wrote it.
Seg(role, text, color, bold) ==
    [role |-> role, text |-> text, color |-> color, bold |-> bold]

NoColor == "none"
Newline == Seg("nl", <<"\n">>, NoColor, FALSE)
Space == Seg("space", <<" ">>, NoColor, FALSE)

\* DefaultColorSchema
DefaultColorSchema ==
    [keyColor |-> "IndianRed", indentLineColor |-> "0x00242424",
     scalarDefaultColor |-> "PaleGreen", boolColor |-> "Moccasin",
     floatColor |-> "Orange", intColor |-> "MediumPurple",
     multiLineTextColor |-> "Aquamarine", nullColor |-> "DarkOrange",
     emptyStructures |-> "PaleGoldenrod"]

Configs ==
    [useIndentLines : BOOLEAN, boldKeys : BOOLEAN,
     colorSchema : {Nil, Ptr(DefaultColorSchema)}]

\* OutputProcessor.colorize: the colour the schema gives the name, if any.
colorize(colorName) ==
    IF config.colorSchema # Nil /\ colorName \in DOMAIN config.colorSchema[1]
    THEN config.colorSchema[1][colorName]
    ELSE NoColor

\* OutputProcessor.prefixAdd: one unit of indentation.
prefixAdd ==
    IF config.useIndentLines
    THEN <<Seg("indent", <<"|", " ">>, colorize("indentLineColor"), FALSE)>>
    ELSE <<Seg("indent", <<" ", " ">>, colorize("indentLineColor"), FALSE)>>

\* The values handed to the renderer.
NilValue == [kind |-> "nil"]
ScalarValue(type, text) == [kind |-> "scalar", type |-> type, err |-> FALSE, data |-> text]
BadValue == [kind |-> "scalar", type |-> "other", err |-> TRUE, data |-> <<>>]
MapSlice(items) == [kind |-> "MapSlice", items |-> items]
MapItem(k, v) == [Key |-> k, Value |-> v]
Slice(items) == [kind |-> "Slice", items |-> items]
MapSliceSlice(items) == [kind |-> "MapSliceSlice", items |-> items]

\* yaml.Marshal of a scalar: the document text, or an error.
Marshal(obj) == [err |-> obj.err, data |-> obj.data]

IsSpace(c) == c \in {" ", "\n", "\t"}

\* strings.TrimSpace
RECURSIVE TrimLeft(_)
TrimLeft(s) == IF s # <<>> /\ IsSpace(Head(s)) THEN TrimLeft(Tail(s)) ELSE s

TrimSpace(s) == Reverse(TrimLeft(Reverse(TrimLeft(s))))

\* What a run of rendering code did: the segments it wrote and whether it
\* returned an error.
Wrote(w) == [w |-> w, err |-> FALSE]
Failed(w) == [w |-> w, err |-> TRUE]

\* A colour choice that forgets the line count.
scalarColorByTypeOnly(type, nlines) ==
    CASE type = "bool" -> "boolColor"
      [] type = "float" -> "floatColor"
      [] type = "int" -> "intColor"
      [] OTHER -> "scalarDefaultColor"

\* The colour neatScalar picks from the runtime type and the line count.
scalarColor(type, nlines) ==
    IF nlines > 1 THEN "multiLineTextColor"
    ELSE CASE type = "bool" -> "boolColor"
           [] type = "float" -> "floatColor"
           [] type = "int" -> "intColor"
           [] OTHER -> "scalarDefaultColor"

\* OutputProcessor.neatScalar
neatScalar(prefix, skipIndentOnFirstLine, obj) ==
    IF obj.kind = "nil"
    THEN Wrote(<<Seg("null", <<"n", "u", "l", "l">>, colorize("nullColor"), FALSE), Newline>>)
    ELSE LET m == Marshal(obj)
             lines == Split(TrimSpace(m.data), "\n")
             color == scalarColor(obj.type, Len(lines))
         IN IF m.err THEN Failed(<<>>)
            ELSE Wrote(Flatten([i \in 1..Len(lines) |->
                     (IF i > 1 THEN prefix ELSE <<>>) \o
                     <<Seg("line", lines[i], colorize(color), FALSE), Newline>>]))

RECURSIVE neat(_, _, _)
RECURSIVE neatMapSliceFrom(_, _, _, _)
RECURSIVE neatSliceFrom(_, _, _, _)

\* The key segment of a mapping item: "%v:" of the key, bold if asked.
keySeg(key) == Seg("key", <<key, ":">>, colorize("keyColor"), config.boldKeys)

Dash == Seg("dash", <<"-", " ">>, NoColor, TRUE)

\* The loop of neatMapSlice from item i on.
neatMapSliceFrom(prefix, skipIndentOnFirstLine, mapslice, i) ==
    IF i > Len(mapslice) THEN Wrote(<<>>)
    ELSE LET mapitem == mapslice[i]
             head == (IF ~skipIndentOnFirstLine \/ i > 1 THEN prefix ELSE <<>>)
                     \o <<keySeg(mapitem.Key)>>
             value ==
                 CASE mapitem.Value.kind = "MapSlice" ->
                        IF Len(mapitem.Value.items) = 0
                        THEN Wrote(<<Space, Seg("empty", <<"{", "}">>, colorize("emptyStructures"), FALSE), Newline>>)
                        ELSE LET sub == neatMapSliceFrom(prefix \o prefixAdd, FALSE, mapitem.Value.items, 1)
                             IN [w |-> <<Newline>> \o sub.w, err |-> sub.err]
                   [] mapitem.Value.kind = "Slice" ->
                        IF Len(mapitem.Value.items) = 0
                        THEN Wrote(<<Space, Seg("empty", <<"[", "]">>, colorize("emptyStructures"), FALSE), Newline>>)
                        ELSE LET sub == neatSliceFrom(prefix, FALSE, mapitem.Value.items, 1)
                             IN [w |-> <<Newline>> \o sub.w, err |-> sub.err]
                   [] OTHER ->
                        LET sub == neatScalar(prefix, FALSE, mapitem.Value)
                        IN [w |-> <<Space>> \o sub.w, err |-> sub.err]
         IN IF value.err THEN Failed(head \o value.w)
            ELSE LET rest == neatMapSliceFrom(prefix, skipIndentOnFirstLine, mapslice, i + 1)
                 IN [w |-> head \o value.w \o rest.w, err |-> rest.err]

\* OutputProcessor.neatMapSlice
neatMapSlice(prefix, skipIndentOnFirstLine, mapslice) ==
    neatMapSliceFrom(prefix, skipIndentOnFirstLine, mapslice, 1)

\* The loop of neatSlice, and of neatMapSliceSlice, from entry i on.
neatSliceFrom(prefix, skipIndentOnFirstLine, list, i) ==
    IF i > Len(list) THEN Wrote(<<>>)
    ELSE LET head == prefix \o <<Dash>>
             entry == neat(prefix \o prefixAdd, TRUE, list[i])
         IN IF entry.err THEN Failed(head \o entry.w)
            ELSE LET rest == neatSliceFrom(prefix, skipIndentOnFirstLine, list, i + 1)
                 IN [w |-> head \o entry.w \o rest.w, err |-> rest.err]

\* OutputProcessor.neatSlice
neatSlice(prefix, skipIndentOnFirstLine, list) ==
    neatSliceFrom(prefix, skipIndentOnFirstLine, list, 1)

\* OutputProcessor.neatMapSliceSlice
neatMapSliceSlice(prefix, skipIndentOnFirstLine, list) ==
    neatSliceFrom(prefix, skipIndentOnFirstLine, list, 1)

\* OutputProcessor.neat
neat(prefix, skipIndentOnFirstLine, obj) ==
    CASE obj.kind = "MapSlice" -> neatMapSlice(prefix, skipIndentOnFirstLine, obj.items)
      [] obj.kind = "Slice" -> neatSlice(prefix, skipIndentOnFirstLine, obj.items)
      [] obj.kind = "MapSliceSlice" -> neatMapSliceSlice(prefix, skipIndentOnFirstLine, obj.items)
      [] OTHER -> neatScalar(prefix, skipIndentOnFirstLine, obj)

\* The scalars and the values ToString is called with.
BoolValue == ScalarValue("bool", <<"t", "\n">>)
IntValue == ScalarValue("int", <<"7", "\n">>)
FloatValue == ScalarValue("float", <<"7", ".", "5", "\n">>)
StringValue == ScalarValue("string", <<"x", "\n">>)
\* a string with a line break: yaml.v2 emits a literal block
TextValue == ScalarValue("string", <<"|", "-", "\n", " ", " ", "x", "\n", " ", " ", "y", "\n">>)
\* a value of another type (a struct) that marshals to two lines
StructValue == ScalarValue("other", <<"p", ":", " ", "q", "\n", "r", ":", " ", "s", "\n">>)

Values ==
    { NilValue, BoolValue, IntValue, FloatValue, StringValue, TextValue,
      StructValue, BadValue,
      MapSlice(<<MapItem("a", TextValue)>>),
      MapSlice(<<MapItem("a", BadValue)>>),
      MapSlice(<<MapItem("a", MapSlice(<<>>)), MapItem("b", Slice(<<>>)),
                 MapItem("c", NilValue)>>),
      MapSlice(<<MapItem("a", MapSlice(<<MapItem("b", TextValue), MapItem("c", FloatValue)>>))>>),
      MapSlice(<<MapItem("a", Slice(<<StructValue, StringValue>>))>>),
      MapSlice(<<MapItem("a", StringValue),
                 MapItem("b", MapSlice(<<MapItem("c", BadValue), MapItem("d", StringValue)>>)),
                 MapItem("e", StringValue)>>),
      Slice(<<TextValue>>),
      Slice(<<BoolValue, BadValue, StringValue>>),
      Slice(<<MapSlice(<<MapItem("a", IntValue), MapItem("b", TextValue)>>)>>),
      Slice(<<Slice(<<StringValue, TextValue>>)>>),
      MapSliceSlice(<<MapSlice(<<MapItem("a", IntValue)>>),
                      MapSlice(<<MapItem("b", BoolValue), MapItem("c", StringValue)>>)>>) }

\* ------------------------------------------------------------- operations

CallFilter ==
    \E paths \in ArgLists(PathStrings) :
        /\ call = NoCall
        /\ call' = [op |-> "Filter", args |-> paths]
        /\ outcome' = Filter(report, paths)
        /\ UNCHANGED <<report, neatVars>>

CallExclude ==
    \E paths \in ArgLists(PathStrings) :
        /\ call = NoCall
        /\ call' = [op |-> "Exclude", args |-> paths]
        /\ outcome' = Exclude(report, paths)
        /\ UNCHANGED <<report, neatVars>>

CallFilterRegexp ==
    \E pattern \in ArgLists(Patterns) :
        /\ call = NoCall
        /\ call' = [op |-> "FilterRegexp", args |-> pattern]
        /\ outcome' = FilterRegexp(report, pattern)
        /\ UNCHANGED <<report, neatVars>>

CallExcludeRegexp ==
    \E pattern \in ArgLists(Patterns) :
        /\ call = NoCall
        /\ call' = [op |-> "ExcludeRegexp", args |-> pattern]
        /\ outcome' = ExcludeRegexp(report, pattern)
        /\ UNCHANGED <<report, neatVars>>

CallIgnoreValueChanges ==
    /\ call = NoCall
    /\ call' = [op |-> "IgnoreValueChanges", args |-> <<>>]
    /\ outcome' = IgnoreValueChanges(report)
    /\ UNCHANGED <<report, neatVars>>

\* A mistaken ToString that hands back what the buffers hold on an error.
ToStringPartial(obj) ==
    LET run == neat(<<>>, FALSE, obj)
    IN /\ ncalls < MaxCalls
       /\ ncalls' = ncalls + 1
       /\ rendered' = obj
       /\ written' = run.w
       /\ IF run.err
          THEN /\ out' = out \o run.w
               /\ data' = data
               /\ ret' = [str |-> data \o out \o run.w, err |-> TRUE]
          ELSE /\ out' = <<>>
               /\ data' = data \o out \o run.w
               /\ ret' = [str |-> data \o out \o run.w, err |-> FALSE]
       /\ UNCHANGED <<filterVars, config>>

\* OutputProcessor.ToString. Everything neat writes goes through p.out into
\* p.data, in order; the writer's own flushes when its buffer fills move
\* segments from out to data early but change neither the order nor what
\* p.data holds after the Flush. Neither is reset between calls.
ToString(obj) ==
    LET run == neat(<<>>, FALSE, obj)
    IN /\ ncalls < MaxCalls
       /\ ncalls' = ncalls + 1
       /\ rendered' = obj
       /\ written' = run.w
       /\ IF run.err
          THEN /\ out' = out \o run.w
               /\ data' = data
               /\ ret' = [str |-> <<>>, err |-> TRUE]
          ELSE /\ out' = <<>>
               /\ data' = data \o out \o run.w
               /\ ret' = [str |-> data \o out \o run.w, err |-> FALSE]
       /\ UNCHANGED <<filterVars, config>>

CallToString == \E obj \in Values : ToString(obj)

\* ---------------------------------------------------------- specifications

\* NewOutputProcessor: an empty buffer and a writer on it.
NeatStart ==
    /\ data = <<>>
    /\ out = <<>>
    /\ ncalls = 0
    /\ rendered = NilValue
    /\ written = <<>>
    /\ ret = [str |-> <<>>, err |-> FALSE]

FilterInit ==
    /\ report \in Reports
    /\ call = NoCall
    /\ outcome = NoOutcome
    /\ config = [useIndentLines |-> TRUE, boldKeys |-> TRUE,
                 colorSchema |-> Ptr(DefaultColorSchema)]
    /\ NeatStart

FilterNext ==
    \/ CallFilter
    \/ CallExclude
    \/ CallFilterRegexp
    \/ CallExcludeRegexp
    \/ CallIgnoreValueChanges

\* The report operations, each applied to a report of the bounded set.
FilterSpec == FilterInit /\ [][FilterNext]_vars

NeatInit ==
    /\ report = [From |-> "from.yml", To |-> "to.yml", Diffs |-> <<>>]
    /\ call = NoCall
    /\ outcome = NoOutcome
    /\ config \in Configs
    /\ NeatStart

NeatNext == CallToString

\* One OutputProcessor and the ToString calls made on it.
NeatSpec == NeatInit /\ [][NeatNext]_vars

\* ------------------------------------------------------- the filter claims

PathOps == {"Filter", "Exclude", "FilterRegexp", "ExcludeRegexp"}

\* The call returned (did not panic) and was made with arguments.
ReturnedWithArgs ==
    /\ call.op \in PathOps
    /\ call.args # <<>>
    /\ outcome.status = "ok"

InDiffs(d, diffs) == \E j \in 1..Len(diffs) : diffs[j] = d

\* The predicate holds for d's own path and for every sub-path inside d's
\* Details appended to it.
Accepts(pred, d) ==
    /\ hasPath(pred, d.Path)
    /\ \A i \in 1..Len(SubPaths(d)) :
           hasPath(pred, IF d.Path = Nil THEN Nil
                         ELSE Ptr(AppendPath(d.Path[1], SubPaths(d)[i])))

\* C1: with a non-empty argument list, a diff is in the result iff the
\* predicate holds for its own path and for every sub-path of its Details;
\* the decision does not depend on the diffs before it.
C1_PerDiffDecision ==
    ReturnedWithArgs =>
        \A i \in 1..Len(report.Diffs) :
            InDiffs(report.Diffs[i], outcome.report.Diffs)
                <=> Accepts(Pred(call.op, call.args), report.Diffs[i])

\* C2: for a non-empty path set P, the diffs of Filter(P) and of Exclude(P)
\* are disjoint and together, in the original order, are the report's Diffs.
C2_Complementarity ==
    ( /\ call.op = "Filter"
      /\ call.args # <<>>
      /\ outcome.status = "ok"
      \* read as narrowly as the claim allows: no diff carries a nested value
      /\ \A i \in 1..Len(report.Diffs) : SubPaths(report.Diffs[i]) = <<>> ) =>
        LET kept == outcome.report.Diffs
            excluded == Exclude(report, call.args)
        IN /\ excluded.status = "ok"
           /\ IsSubsequence(kept, report.Diffs)
           /\ IsSubsequence(excluded.report.Diffs, report.Diffs)
           /\ \A i \in 1..Len(report.Diffs) :
                  InDiffs(report.Diffs[i], kept)
                      # InDiffs(report.Diffs[i], excluded.report.Diffs)

\* C3: called with no arguments, each of the four operations returns the
\* input report unchanged, never an empty report.
C3_ZeroArgsIdentity ==
    (call.op \in PathOps /\ call.args = <<>>) => outcome = Ok(report)

C3_Witness ==
    /\ call.op = "Filter"
    /\ call.args = <<>>
    /\ \E i \in 1..Len(report.Diffs) :
           report.Diffs[i].Path = Nil /\ SubPaths(report.Diffs[i]) # <<>>
    /\ outcome.report.Diffs = report.Diffs

\* C4: the Diffs of a filtered report are a subsequence of the input's
\* Diffs, each with its Path and Details unchanged, and From and To are the
\* input's.
C4_OnlyRemoves ==
    (call.op \in PathOps /\ outcome.status = "ok") =>
        /\ IsSubsequence(outcome.report.Diffs, report.Diffs)
        /\ outcome.report.From = report.From
        /\ outcome.report.To = report.To

C4_Witness ==
    /\ call.op = "Exclude"
    /\ call.args # <<>>
    /\ outcome.status = "ok"
    /\ Len(report.Diffs) > Len(outcome.report.Diffs)
    /\ Len(outcome.report.Diffs) > 0

NoModification(d) == \A i \in 1..Len(d.Details) : d.Details[i].Kind # MODIFICATION

\* C5: IgnoreValueChanges keeps exactly the diffs none of whose Details is
\* a MODIFICATION, in their input order, with the input's From and To.
C5_IgnoreValueChanges ==
    call.op = "IgnoreValueChanges" =>
        /\ outcome.status = "ok"
        /\ outcome.report.Diffs = SelectSeq(report.Diffs, NoModification)
        /\ outcome.report.From = report.From
        /\ outcome.report.To = report.To

C5_Witness ==
    /\ call.op = "IgnoreValueChanges"
    /\ Len(report.Diffs) > Len(outcome.report.Diffs)
    /\ Len(outcome.report.Diffs) > 0
    /\ \E i \in 1..Len(report.Diffs) :
           /\ Len(report.Diffs[i].Details) > 1
           /\ report.Diffs[i].Details[1].Kind # MODIFICATION
           /\ ~NoModification(report.Diffs[i])

\* C6: for a non-empty argument list, Filter and FilterRegexp complete
\* normally and return a report without any diff whose Path is absent,
\* whatever that diff's Details contain.
C6_AbsentPathNeverMatches ==
    ( /\ call.op \in {"Filter", "FilterRegexp"}
      /\ call.args # <<>>
      /\ call.op = "FilterRegexp" => \A i \in 1..Len(call.args) : call.args[i].valid
      /\ \E i \in 1..Len(report.Diffs) : report.Diffs[i].Path = Nil ) =>
        /\ outcome.status = "ok"
        /\ \A j \in 1..Len(outcome.report.Diffs) : outcome.report.Diffs[j].Path # Nil

\* --------------------------------------------------------- the neat claims

\* The rendering of a value on its own: what one call writes for it.
Rendering(obj) == neat(<<>>, FALSE, obj).w

\* C7: the string a ToString call returns depends only on the value passed
\* to that call, not on earlier calls on the same OutputProcessor.
C7_StatelessRendering ==
    (ncalls > 0 /\ ~ret.err) => ret.str = Rendering(rendered)

RECURSIVE HasBad(_)
HasBad(obj) ==
    CASE obj.kind = "scalar" -> obj.err
      [] obj.kind = "nil" -> FALSE
      [] obj.kind = "MapSlice" ->
            \E i \in 1..Len(obj.items) : HasBad(obj.items[i].Value)
      [] OTHER -> \E i \in 1..Len(obj.items) : HasBad(obj.items[i])

\* The value with every unserializable scalar made a one-line marker.
Marker == <<"?">>

RECURSIVE Heal(_)
Heal(obj) ==
    CASE obj.kind = "scalar" ->
            IF obj.err THEN ScalarValue("other", Marker \o <<"\n">>) ELSE obj
      [] obj.kind = "nil" -> obj
      [] obj.kind = "MapSlice" ->
            MapSlice([i \in 1..Len(obj.items) |->
                         MapItem(obj.items[i].Key, Heal(obj.items[i].Value))])
      [] OTHER -> [kind |-> obj.kind,
                   items |-> [i \in 1..Len(obj.items) |-> Heal(obj.items[i])]]

\* The segments of w before the first marker line.
RECURSIVE BeforeMarker(_)
BeforeMarker(w) ==
    IF w = <<>> \/ (Head(w).role = "line" /\ Head(w).text = Marker) THEN <<>>
    ELSE <<Head(w)>> \o BeforeMarker(Tail(w))

\* C8: a scalar that fails to serialize, at any depth and after any number
\* of rendered siblings, aborts the call: ToString returns the error and the
\* empty string, and nothing after the failing scalar is rendered.
C8_FailureAborts ==
    (ncalls > 0 /\ HasBad(rendered)) =>
        /\ ret = [str |-> <<>>, err |-> TRUE]
        /\ written = BeforeMarker(Rendering(Heal(rendered)))

C8_Witness ==
    /\ ncalls = MaxCalls
    /\ data # <<>>
    /\ rendered.kind = "MapSlice"
    /\ Len(rendered.items) > 1
    /\ HasBad(rendered.items[2].Value)
    /\ ret.err
    /\ ret.str = <<>>
    /\ written # <<>>

\* The non-null scalars of a value in document order, each with the number
\* of indentation units of the prefix it is rendered under: a mapping's
\* value under the mapping's prefix, a sequence's element under one more.
RECURSIVE Scalars(_, _)
Scalars(obj, depth) ==
    CASE obj.kind = "scalar" -> <<[scalar |-> obj, depth |-> depth]>>
      [] obj.kind = "nil" -> <<>>
      [] obj.kind = "MapSlice" ->
            Flatten([i \in 1..Len(obj.items) |->
                LET v == obj.items[i].Value
                IN CASE v.kind = "MapSlice" -> Scalars(v, depth + 1)
                     [] v.kind = "Slice" -> Scalars(v, depth)
                     [] OTHER -> Scalars(v, depth)])
      [] OTHER -> Flatten([i \in 1..Len(obj.items) |-> Scalars(obj.items[i], depth + 1)])

TypeColor(type) ==
    CASE type = "bool" -> "boolColor"
      [] type = "float" -> "floatColor"
      [] type = "int" -> "intColor"
      [] OTHER -> "scalarDefaultColor"

\* What the claim says of one scalar: its lines, each with a newline, the
\* later ones behind the prefix; multi-line text colour for more than one
\* line, else the colour of the type.
ExpectedLines(s) ==
    LET lines == Split(TrimSpace(s.scalar.data), "\n")
        color == IF Len(lines) > 1 THEN "multiLineTextColor" ELSE TypeColor(s.scalar.type)
        prefix == Flatten([d \in 1..s.depth |-> prefixAdd])
    IN Flatten([i \in 1..Len(lines) |->
           (IF i > 1 THEN prefix ELSE <<>>) \o
           <<Seg("line", lines[i], colorize(color), FALSE), Newline>>])

\* Position of the first line segment of w at or after k (0: none).
RECURSIVE NextLine(_, _)
NextLine(w, k) ==
    IF k > Len(w) THEN 0
    ELSE IF w[k].role = "line" THEN k
    ELSE NextLine(w, k + 1)

\* The scalars' expected lines are, in order, all the lines of w, and no
\* scalar's first line follows a prefix.
RECURSIVE LinesAre(_, _, _)
LinesAre(w, k, scalars) ==
    LET at == NextLine(w, k)
    IN IF scalars = <<>> THEN at = 0
       ELSE LET want == ExpectedLines(Head(scalars))
            IN /\ at > 0
               /\ at + Len(want) - 1 <= Len(w)
               /\ SubSeq(w, at, at + Len(want) - 1) = want
               /\ at > 1 => w[at - 1].role # "indent"
               /\ LinesAre(w, at + Len(want), Tail(scalars))

\* C9: a non-null scalar whose trimmed text has more than one line has
\* every line in the multi-line text colour whatever its type, the first
\* without a prefix and each later one behind exactly the current prefix;
\* a single line takes the colour of its type.
C9_MultiLineScalar ==
    (ncalls > 0 /\ ~ret.err) => LinesAre(written, 1, Scalars(rendered, 0))

C9_Witness ==
    /\ ncalls > 0
    /\ ~ret.err
    /\ config.colorSchema # Nil
    /\ \E i \in 1..Len(Scalars(rendered, 0)) :
           /\ Scalars(rendered, 0)[i].depth > 0
           /\ Scalars(rendered, 0)[i].scalar.type = "string"
           /\ Len(ExpectedLines(Scalars(rendered, 0)[i])) > 2
    /\ \E i \in 1..Len(Scalars(rendered, 0)) :
           Scalars(rendered, 0)[i].scalar.type = "float"

\* C10: the first line of a value rendered after a sequence dash does not
\* start with the prefix again, whether the element is a mapping, a scalar
\* or a sequence; every later line of the element starts with the prefix.
C10_FirstLineAfterDash ==
    ncalls > 0 =>
        /\ \A k \in 1..(Len(written) - 1) :
               written[k].role = "dash" => written[k + 1].role # "indent"
        /\ (rendered.kind \in {"Slice", "MapSliceSlice"} /\ ~ret.err) =>
               \A l \in Range(Split(written, Newline)) :
                   l # <<>> => l[1].role \in {"dash", "indent"}

====
